---- MODULE Spec2Model ----
(***************************************************************************)
(* Asynchronous PDF ingestion pipeline of sonqobase-api:                   *)
(*   strategies/pdf_ingest_strategy.py  -> job creation, background save   *)
(*   listeners/pdf_text_extraction_listener.py  (PdfSavedToGridFSEvent)    *)
(*   listeners/pdf_chunking_listener.py         (PdfPageExtractedEvent)    *)
(*   listeners/embedding_generation_listener.py (PdfChunkedEvent)          *)
(*   listeners/vector_storage_listener.py       (EmbeddingsGeneratedEvent) *)
(*   infra/job_repository.py, infra/pdf_concurrency_limiter.py,            *)
(*   infra/event_bus.py, infra/pdf_storage.py,                             *)
(*   api/v1/collections.py (the upload endpoint)                           *)
(*                                                                         *)
(* The runtime is one asyncio event loop: the code between two awaits that *)
(* really suspend is one atomic action.  EventBus.publish gathers the      *)
(* asynchronous listeners and returns only when they have returned, so the *)
(* four stage handlers of a job form one nested call chain: the publisher  *)
(* is suspended while the listener runs and resumes after it.  Handlers of *)
(* different jobs interleave at the suspension points.                     *)
(*                                                                         *)
(* The listener modules build their repository with JobRepository(meta_db) *)
(* although JobRepository.__init__ takes no argument; the model describes  *)
(* the handlers as they run once registered.  The text pipeline imports    *)
(* TextIngestStartedEvent and TextChunkedEvent, which domain/events.py     *)
(* does not define, so only PDF jobs are created here.                     *)
(***************************************************************************)
EXTENDS Integers, Sequences, FiniteSets, TLC

(***************************************************************************)
(* Bounds of the model.                                                    *)
(***************************************************************************)
NumJobs == 3
MaxPages == 2
MaxChunks == 11
MaxPdfSizeMb == 2
MaxHandlers == 3
MaxBytes == 1
MaxNow == 36
ClockStep == 12
MaxRetention == 24
MaxCalls == 3
MaxChars == 6
MaxChunkSize == 1
MaxReferences == 2

(***************************************************************************)
(* Program constants.                                                      *)
(***************************************************************************)
batch_size == 10
MB == 1048576
ttl_hours == 24
LIMITS == [Free |-> 1, Starter |-> 2, Pro |-> 5]

Jobs == 1..NumJobs

\* plan names a job's metadata can carry (plan.name of the caller's plan)
PlanNames == {"Free", "Starter"}

\* str.title() on the plan names of the model
Title(plan_name) ==
    CASE plan_name = "free" -> "Free"
      [] plan_name = "starter" -> "Starter"
      [] plan_name = "pro" -> "Pro"
      [] OTHER -> plan_name

\* the pages a stored PDF can hold: the length of the page's extracted text
\* (0 = no text) and the number of chunks chunk_text returns for it
PageKinds ==
    { [text_length |-> 0, nchunks |-> 0],
      [text_length |-> 1, nchunks |-> 0],
      [text_length |-> 1, nchunks |-> 1],
      [text_length |-> 1, nchunks |-> MaxChunks] }

RECURSIVE SeqsUpTo(_, _)
SeqsUpTo(S, n) ==
    IF n = 0 THEN { <<>> }
    ELSE LET shorter == SeqsUpTo(S, n - 1)
         IN  shorter \cup { Append(s, x) : s \in { t \in shorter : Len(t) = n - 1 }, x \in S }

Documents == SeqsUpTo(PageKinds, MaxPages)

\* one page without extractable text (a scanned page)
ShortDocuments == { << [text_length |-> 0, nchunks |-> 0] >> }

\* the documents uploaded for a job: job 1 ingests any document, the jobs
\* that compete with it for the concurrency slots ingest a short one
DocumentsOf(j) == IF j = 1 THEN Documents ELSE ShortDocuments

\* the handler functions, numbered in the order of their registration
Handlers == 1..MaxHandlers

\* event classes of domain/events.py the bus is observed with
EventTypes == {"PdfChunkedEvent", "EmbeddingsGeneratedEvent"}

\* the plans of the plan repository: a name and the PDF size limit in MB
Plans == { [name |-> n, pdf_max_size_mb |-> m] : n \in PlanNames, m \in 1..MaxPdfSizeMb }

\* sizes in bytes of the uploaded files: empty, and around each whole MB
UploadSizes == {0} \cup { m * MB + d : m \in 1..MaxPdfSizeMb, d \in {-1, 0, 1} }

\* an upload that passes validation under every plan, and a plan for it
SmallUpload == 0
PlanNamed(plan_name) == [name |-> plan_name, pdf_max_size_mb |-> 1]

\* no response given yet; the job_id of a response that carries none
NoResponse == [status_code |-> 0]
NoJob == 0

\* no chunking call made yet
NotChunked == [text |-> << >>, chunk_size |-> 0, chunks |-> << >>, slices |-> << >>]

\* neither get_by_hash nor delete_by_hash has been called
NotFetched == [result |-> "None"]

\* no content hash returned yet
NoHash == -1

\* a file whose metadata has no reference_count key: $inc starts from 0
NoCount == 0

Min(a, b) == IF a < b THEN a ELSE b
Max(a, b) == IF a > b THEN a ELSE b

VARIABLES
    jobs,             \* JobRepository.collection: job_id -> job document
    pdf,              \* the pages of the PDF uploaded for each job
    pc,               \* where the call chain of each job stands
    page_number,      \* on_pdf_saved_to_gridfs: page_number of the page in flight
    batch_i,          \* on_pdf_chunked: loop index i of the batch loop
    semaphores,       \* PdfConcurrencyLimiter._semaphores: free permits per plan
    waiters,          \* jobs suspended in semaphore.acquire() under wait_for
    current_counts,   \* PdfConcurrencyLimiter._current_counts
    published,        \* events handed to EventBus.publish, per job, in order
    vectors,          \* number of vector records inserted per job
    n_acquired,       \* successful concurrency_limiter.acquire calls per job
    n_released,       \* concurrency_limiter.release calls per job
    raised,           \* jobs one of whose stages raised an exception
    projects,         \* meta_db.projects: the project document of each job
    vector_expires_at, \* the expires_at values of the vector records of each job
    responses,        \* ingest_files: the HTTP response to each upload request
    sync_listeners,   \* EventBus._sync_listeners: event type -> handlers
    async_listeners,  \* EventBus._async_listeners: event type -> handlers
    bus_pc,           \* where the publish call under observation stands
    bus_event,        \* publish: event_type of the event being published
    sync_i,           \* publish: position of the loop over the sync listeners
    tasks,            \* publish: the coroutines handed to asyncio.gather
    calls,            \* what the handlers did during the publish, in order
    publish_outcome,  \* how the last publish call ended
    fs_files,         \* PdfStorage.fs: the files of the pdf_temp bucket
    returned_hash,    \* what save_or_reuse returned for each job
    now,              \* datetime.now(timezone.utc), in hours
    fetched,          \* how the last get_by_hash or delete_by_hash call ended
    ledger_calls,     \* the calls the ledger's callers made for each job, in order
    chunked           \* the last chunking call: its text, chunk size and chunks

pipelineVars == << jobs, pdf, pc, page_number, batch_i, semaphores, waiters,
                   current_counts, published, vectors, n_acquired, n_released,
                   raised, projects, vector_expires_at >>

busVars == << sync_listeners, async_listeners, bus_pc, bus_event, sync_i, tasks,
              calls, publish_outcome >>

storeVars == << fs_files, returned_hash, now, fetched >>

ledgerVars == << ledger_calls >>

textVars == << chunked >>

vars == << pipelineVars, responses, busVars, storeVars, ledgerVars, textVars >>

(***************************************************************************)
(* Job ledger (infra/job_repository.py).                                   *)
(***************************************************************************)
NoneProgress == -1
NoneResult == [none |-> TRUE]
NoneError == [kind |-> "None", limit |-> 0]

Err(kind) == [kind |-> kind, limit |-> 0]

\* JobRepository.create
create(plan_name) ==
    [ type |-> "pdf_ingest",
      status |-> "queued",
      progress |-> 0,
      metadata |-> [plan_name |-> plan_name],
      result |-> << >>,
      error |-> NoneError,
      created_at |-> now,
      updated_at |-> now,
      completed_at |-> FALSE ]

\* an update_status that writes progress only when it is passed
update_status_keeping_progress(job, status, progress, result, error) ==
    [ job EXCEPT
        !.status = status,
        !.progress = IF progress # NoneProgress THEN progress ELSE @,
        !.result = IF result # NoneResult THEN result ELSE @,
        !.error = IF error # NoneError THEN error ELSE @,
        !.updated_at = now,
        !.completed_at = IF status \in {"completed", "failed"} THEN TRUE ELSE @ ]

\* JobRepository.update_status: $set of the given fields on one job document
update_status(job, status, progress, result, error) ==
    [ job EXCEPT
        !.status = status,
        !.progress = IF status = "completed" THEN 100
                     ELSE IF progress # NoneProgress THEN progress ELSE @,
        !.result = IF result # NoneResult THEN result ELSE @,
        !.error = IF error # NoneError THEN error ELSE @,
        !.updated_at = now,
        !.completed_at = IF status \in {"completed", "failed"} THEN TRUE ELSE @ ]

\* an increment_progress that writes delta over progress with $set
increment_progress_overwriting(job, delta, status, result) ==
    [ job EXCEPT
        !.progress = delta,
        !.status = IF status # "" THEN status ELSE @,
        !.result = IF result # NoneResult /\ result # << >> THEN result ELSE @,
        !.updated_at = now ]

\* JobRepository.increment_progress: $inc progress, $set status and result
increment_progress(job, delta, status, result) ==
    [ job EXCEPT
        !.progress = @ + delta,
        !.status = IF status # "" THEN status ELSE @,
        !.result = IF result # NoneResult /\ result # << >> THEN result ELSE @,
        !.updated_at = now ]

(***************************************************************************)
(* Concurrency limiter (infra/pdf_concurrency_limiter.py).                 *)
(***************************************************************************)
\* PdfConcurrencyLimiter.get_semaphore: key of the semaphore used for a plan
get_semaphore(plan_name) ==
    IF Title(plan_name) \in DOMAIN LIMITS THEN Title(plan_name) ELSE "Free"

\* PdfConcurrencyLimiter.get_limit
get_limit(plan_name) ==
    IF Title(plan_name) \in DOMAIN LIMITS THEN LIMITS[Title(plan_name)] ELSE 1

\* dict.get(normalized, 0) on _current_counts
count_of(counts, normalized) ==
    IF normalized \in DOMAIN counts THEN counts[normalized] ELSE 0

\* _current_counts[normalized] = value
set_count(counts, normalized, value) ==
    [ k \in DOMAIN counts \cup {normalized} |->
        IF k = normalized THEN value ELSE counts[k] ]

plan_name_of(j) == jobs[j].metadata.plan_name

total_pages(j) == Len(pdf[j])

\* the chunks carried by the PdfChunkedEvent of the page in flight
event_chunks(j) == pdf[j][page_number[j]].nchunks

Publish(j, event) == published' = [published EXCEPT ![j] = Append(@, event)]

PipelineInit ==
    /\ jobs = << >>
    /\ pdf = [j \in Jobs |-> << >>]
    /\ pc = [j \in Jobs |-> "new"]
    /\ page_number = [j \in Jobs |-> 0]
    /\ batch_i = [j \in Jobs |-> 0]
    /\ semaphores = LIMITS
    /\ waiters = {}
    /\ current_counts = [p \in DOMAIN LIMITS |-> 0]
    /\ published = [j \in Jobs |-> << >>]
    /\ vectors = [j \in Jobs |-> 0]
    /\ n_acquired = [j \in Jobs |-> 0]
    /\ n_released = [j \in Jobs |-> 0]
    /\ raised = {}
    /\ responses = [r \in Jobs |-> NoResponse]
    /\ sync_listeners = [t \in EventTypes |-> << >>]
    /\ async_listeners = [t \in EventTypes |-> << >>]
    /\ bus_pc = "idle"
    /\ bus_event = "None"
    /\ sync_i = 0
    /\ tasks = << >>
    /\ calls = << >>
    /\ publish_outcome = "None"
    /\ fs_files = << >>
    /\ returned_hash = [j \in Jobs |-> NoHash]
    /\ now = 0
    /\ fetched = NotFetched
    /\ ledger_calls = [j \in Jobs |-> << >>]
    /\ chunked = NotChunked
    /\ vector_expires_at = [j \in Jobs |-> {}]

\* every upload belongs to a project created at hour 0 with the longest
\* retention
Init ==
    /\ PipelineInit
    /\ projects = [j \in Jobs |-> [expires_at |-> MaxRetention]]


(***************************************************************************)
(* PdfConcurrencyLimiter.acquire / release as state changes.               *)
(***************************************************************************)
\* acquire, lines 78-87: semaphore.acquire() returned, the count is raised
take_slot(j) ==
    LET normalized == Title(plan_name_of(j))
    IN  /\ semaphores' = [semaphores EXCEPT ![get_semaphore(normalized)] = @ - 1]
        /\ current_counts' = set_count(current_counts, normalized,
                                       count_of(current_counts, normalized) + 1)
        /\ n_acquired' = [n_acquired EXCEPT ![j] = @ + 1]

\* PdfConcurrencyLimiter.release
release(j) ==
    LET normalized == Title(plan_name_of(j))
    IN  /\ semaphores' = [semaphores EXCEPT ![get_semaphore(normalized)] = @ + 1]
        /\ current_counts' = set_count(current_counts, normalized,
                                       Max(0, count_of(current_counts, normalized) - 1))
        /\ n_released' = [n_released EXCEPT ![j] = @ + 1]

\* the ValueError raised by acquire on timeout: message with the plan's limit
ConcurrencyLimitError(j) ==
    [kind |-> "concurrency", limit |-> get_limit(Title(plan_name_of(j)))]

\* waiters of the semaphore a job's plan maps to
waiting_on(sem) == { w \in waiters : get_semaphore(plan_name_of(w)) = sem }

(***************************************************************************)
(* Entry point (strategies/pdf_ingest_strategy.py).                        *)
(***************************************************************************)
\* validate comparing with >= : a file of exactly the limit is refused
validate_inclusive(plan, size_bytes) ==
    IF size_bytes >= plan.pdf_max_size_mb * MB THEN "ValueError" ELSE "None"

\* PdfIngestStrategy.validate: the exception it raises, "None" if it returns.
\* size_mb = size_bytes / (1024 * 1024) is exact in binary floating point,
\* so size_mb > pdf_max_size_mb is the comparison of the integers below.
\* size_bytes is source.size, or the length of the content when that is 0.
validate(plan, size_bytes) ==
    IF size_bytes > plan.pdf_max_size_mb * MB THEN "ValueError" ELSE "None"

\* process awaiting _process_pdf_background instead of creating a task for
\* it: the file is saved and PdfSavedToGridFSEvent published before it returns
process_awaiting_background(j, plan_name, document) ==
    /\ pc[j] = "new"
    /\ \A k \in Jobs : k < j => pc[k] # "new"
    /\ jobs' = (j :> create(plan_name)) @@ jobs
    /\ pdf' = [pdf EXCEPT ![j] = document]
    /\ Publish(j, [type |-> "PdfSavedToGridFSEvent"])
    /\ pc' = [pc EXCEPT ![j] = "ext_start"]
    /\ UNCHANGED << page_number, batch_i, semaphores, waiters, current_counts,
                    vectors, n_acquired, n_released, raised >>

\* PdfIngestStrategy.process: create the job, start the background task.
\* Job ids are generated, so the jobs are created in the order of Jobs.
process(j, plan_name, document) ==
    /\ pc[j] = "new"
    /\ \A k \in Jobs : k < j => pc[k] # "new"
    /\ jobs' = (j :> create(plan_name)) @@ jobs
    /\ pdf' = [pdf EXCEPT ![j] = document]
    /\ pc' = [pc EXCEPT ![j] = "bg_save"]
    /\ UNCHANGED << page_number, batch_i, semaphores, waiters, current_counts,
                    published, vectors, n_acquired, n_released, raised >>

(***************************************************************************)
(* POST /{collection}/ingest/files (api/v1/collections.py).                *)
(***************************************************************************)
\* requests are answered in the order of their numbers
next_request(r) ==
    /\ responses[r] = NoResponse
    /\ \A k \in Jobs : k < r => responses[k] # NoResponse

\* ingest_files, validation passed: process is called and its job id is
\* returned in the response
ingest_files(r, j, plan, size_bytes, document) ==
    /\ next_request(r)
    /\ validate(plan, size_bytes) = "None"
    /\ process(j, plan.name, document)
    /\ responses' = [responses EXCEPT ![r] =
                       [status_code |-> 202, job_id |-> j, size_bytes |-> size_bytes,
                        pdf_max_size_mb |-> plan.pdf_max_size_mb]]
    /\ UNCHANGED << busVars, ledgerVars, textVars, storeVars, projects, vector_expires_at >>

\* ingest_files, validate raised ValueError: HTTP 400, process is not called
ingest_files_rejected(r, plan, size_bytes) ==
    /\ next_request(r)
    /\ validate(plan, size_bytes) = "ValueError"
    /\ responses' = [responses EXCEPT ![r] =
                       [status_code |-> 400, job_id |-> NoJob, size_bytes |-> size_bytes,
                        pdf_max_size_mb |-> plan.pdf_max_size_mb]]
    /\ UNCHANGED << pipelineVars, busVars, ledgerVars, textVars, storeVars >>

\* _process_pdf_background after save_or_reuse returned: publish the event
background_saved(j) ==
    /\ pc[j] = "bg_save"
    /\ Publish(j, [type |-> "PdfSavedToGridFSEvent"])
    /\ pc' = [pc EXCEPT ![j] = "ext_start"]
    /\ UNCHANGED << jobs, pdf, page_number, batch_i, semaphores, waiters,
                    current_counts, vectors, n_acquired, n_released, raised >>
    /\ UNCHANGED << responses, busVars, ledgerVars, textVars, storeVars, projects, vector_expires_at >>

\* _process_pdf_background when save_or_reuse raised: except branch
background_failed(j) ==
    /\ pc[j] = "bg_save"
    /\ jobs' = [jobs EXCEPT ![j] =
                  update_status(@, "failed", NoneProgress, NoneResult, Err("save"))]
    /\ raised' = raised \cup {j}
    /\ pc' = [pc EXCEPT ![j] = "done"]
    /\ UNCHANGED << pdf, page_number, batch_i, semaphores, waiters,
                    current_counts, published, vectors, n_acquired, n_released >>
    /\ UNCHANGED << responses, busVars, ledgerVars, textVars, storeVars, projects, vector_expires_at >>

(***************************************************************************)
(* Extraction handler (listeners/pdf_text_extraction_listener.py).         *)
(***************************************************************************)
\* lines 40-55: the handler starts and calls acquire.  A free permit is
\* taken at once; with none free the call suspends on the semaphore.  With a
\* free permit and earlier waiters the outcome depends on the asyncio
\* version (FIFO hand-over or barging), so both are possible.
extraction_acquire(j) ==
    /\ pc[j] = "ext_start"
    /\ LET sem == get_semaphore(plan_name_of(j))
       IN  \/ /\ semaphores[sem] > 0
              /\ take_slot(j)
              /\ pc' = [pc EXCEPT ![j] = "ext_acquired"]
              /\ UNCHANGED waiters
           \/ /\ semaphores[sem] = 0 \/ waiting_on(sem) # {}
              /\ waiters' = waiters \cup {j}
              /\ pc' = [pc EXCEPT ![j] = "acq_wait"]
              /\ UNCHANGED << semaphores, current_counts, n_acquired >>
    /\ UNCHANGED << jobs, pdf, page_number, batch_i, published, vectors,
                    n_released, raised >>
    /\ UNCHANGED << responses, busVars, ledgerVars, textVars, storeVars, projects, vector_expires_at >>

\* acquire, lines 74-87: a permit was released while the job waited
acquire_wakeup(j) ==
    /\ pc[j] = "acq_wait"
    /\ semaphores[get_semaphore(plan_name_of(j))] > 0
    /\ take_slot(j)
    /\ waiters' = waiters \ {j}
    /\ pc' = [pc EXCEPT ![j] = "ext_acquired"]
    /\ UNCHANGED << jobs, pdf, page_number, batch_i, published, vectors,
                    n_released, raised >>
    /\ UNCHANGED << responses, busVars, ledgerVars, textVars, storeVars, projects, vector_expires_at >>

\* acquire awaiting semaphore.acquire() without wait_for: no timer ever fires
acquire_without_timeout(j) ==
    /\ pc[j] = "acq_wait"
    /\ FALSE
    /\ UNCHANGED vars

\* acquire, lines 89-99, and the handler's lines 56-59 and 148-149: the
\* 100ms timer fires, acquire raises ValueError, the handler marks the job
\* failed and returns; the finally clause of the enclosing try releases.
acquire_timeout(j) ==
    /\ pc[j] = "acq_wait"
    /\ waiters' = waiters \ {j}
    /\ jobs' = [jobs EXCEPT ![j] =
                  update_status(@, "failed", NoneProgress, NoneResult,
                                ConcurrencyLimitError(j))]
    /\ release(j)
    /\ pc' = [pc EXCEPT ![j] = "done"]
    /\ UNCHANGED << pdf, page_number, batch_i, published, vectors,
                    n_acquired, raised >>
    /\ UNCHANGED << responses, busVars, ledgerVars, textVars, storeVars, projects, vector_expires_at >>

\* lines 135-149: except Exception of the handler, then finally
extraction_failed(j) ==
    /\ jobs' = [jobs EXCEPT ![j] =
                  update_status(@, "failed", NoneProgress, NoneResult, Err("extraction"))]
    /\ Publish(j, [type |-> "PdfIngestFailedEvent", stage |-> "extraction"])
    /\ release(j)
    /\ raised' = raised \cup {j}
    /\ pc' = [pc EXCEPT ![j] = "done"]
    /\ UNCHANGED << pdf, page_number, batch_i, waiters, vectors, n_acquired >>

\* lines 61-76: look the file up in GridFS, set extracting_text / 10
extraction_begin(j) ==
    /\ pc[j] = "ext_acquired"
    /\ \/ /\ jobs' = [jobs EXCEPT ![j] =
                        update_status(@, "extracting_text", 10, NoneResult, NoneError)]
          /\ pc' = [pc EXCEPT ![j] = "ext_next"]
          /\ UNCHANGED << pdf, page_number, batch_i, semaphores, waiters,
                          current_counts, published, vectors, n_acquired,
                          n_released, raised >>
       \/ extraction_failed(j)        \* pdf_file is None: RuntimeError
    /\ UNCHANGED << responses, busVars, ledgerVars, textVars, storeVars, projects, vector_expires_at >>

\* the page loop publishing no event for a page without text
extraction_next_page_skipping_empty(j) ==
    /\ pc[j] = "ext_next"
    /\ \/ /\ page_number[j] < total_pages(j)
          /\ page_number' = [page_number EXCEPT ![j] = @ + 1]
          /\ IF pdf[j][page_number[j] + 1].text_length = 0
             THEN UNCHANGED << published, pc >>
             ELSE /\ Publish(j, [type |-> "PdfPageExtractedEvent",
                                 page_number |-> page_number[j] + 1,
                                 total_pages |-> total_pages(j)])
                  /\ pc' = [pc EXCEPT ![j] = "chunk_start"]
          /\ UNCHANGED << jobs, pdf, batch_i, semaphores, waiters, current_counts,
                          vectors, n_acquired, n_released, raised >>
       \/ /\ page_number[j] = total_pages(j)
          /\ release(j)
          /\ pc' = [pc EXCEPT ![j] = "done"]
          /\ UNCHANGED << jobs, pdf, page_number, batch_i, waiters, published,
                          vectors, n_acquired, raised >>
       \/ extraction_failed(j)        \* the PDF parser raised
    /\ UNCHANGED << responses, busVars, ledgerVars, textVars, storeVars, projects, vector_expires_at >>

\* lines 84-117 and 133, 148-149: the executor returned the next page (publish
\* it), the end of the document (leave the loop, release), or raised
extraction_next_page(j) ==
    /\ pc[j] = "ext_next"
    /\ \/ /\ page_number[j] < total_pages(j)
          /\ page_number' = [page_number EXCEPT ![j] = @ + 1]
          /\ Publish(j, [type |-> "PdfPageExtractedEvent",
                         page_number |-> page_number[j] + 1,
                         total_pages |-> total_pages(j)])
          /\ pc' = [pc EXCEPT ![j] = "chunk_start"]
          /\ UNCHANGED << jobs, pdf, batch_i, semaphores, waiters, current_counts,
                          vectors, n_acquired, n_released, raised >>
       \/ /\ page_number[j] = total_pages(j)
          /\ release(j)
          /\ pc' = [pc EXCEPT ![j] = "done"]
          /\ UNCHANGED << jobs, pdf, page_number, batch_i, waiters, published,
                          vectors, n_acquired, raised >>
       \/ extraction_failed(j)        \* the PDF parser raised
    /\ UNCHANGED << responses, busVars, ledgerVars, textVars, storeVars, projects, vector_expires_at >>

\* lines 119-129: publish returned, increment the progress of the page
extraction_increment(j) ==
    /\ pc[j] = "ext_inc"
    /\ jobs' = [jobs EXCEPT ![j] =
                  increment_progress(@, 30 \div total_pages(j), "extracting_text",
                                     [pages_processed |-> page_number[j],
                                      total_pages |-> total_pages(j)])]
    /\ pc' = [pc EXCEPT ![j] = "ext_next"]
    /\ UNCHANGED << pdf, page_number, batch_i, semaphores, waiters, current_counts,
                    published, vectors, n_acquired, n_released, raised >>
    /\ UNCHANGED << responses, busVars, ledgerVars, textVars, storeVars, projects, vector_expires_at >>


(***************************************************************************)
(* Chunking handler (listeners/pdf_chunking_listener.py).                  *)
(***************************************************************************)
\* a chunking handler that sends every page to chunk_text, with or without text
chunking_start_not_skipping(j) ==
    /\ pc[j] = "chunk_start"
    /\ pc' = [pc EXCEPT ![j] = "chunk_run"]
    /\ UNCHANGED << jobs, pdf, page_number, batch_i, semaphores, waiters,
                    current_counts, published, vectors, n_acquired, n_released,
                    raised >>
    /\ UNCHANGED << responses, busVars, ledgerVars, textVars, storeVars, projects, vector_expires_at >>

\* lines 37-69: the handler starts on the PdfPageExtractedEvent; a page
\* without text returns at once, otherwise chunk_text goes to the executor
chunking_start(j) ==
    /\ pc[j] = "chunk_start"
    /\ pc' = [pc EXCEPT ![j] =
                IF pdf[j][page_number[j]].text_length = 0 THEN "ext_inc"
                ELSE "chunk_run"]
    /\ UNCHANGED << jobs, pdf, page_number, batch_i, semaphores, waiters,
                    current_counts, published, vectors, n_acquired, n_released,
                    raised >>
    /\ UNCHANGED << responses, busVars, ledgerVars, textVars, storeVars, projects, vector_expires_at >>

\* lines 114-125: except Exception of the chunking handler
chunking_failed(j) ==
    /\ jobs' = [jobs EXCEPT ![j] =
                  update_status(@, "failed", NoneProgress, NoneResult, Err("chunking"))]
    /\ Publish(j, [type |-> "PdfIngestFailedEvent", stage |-> "chunking"])
    /\ raised' = raised \cup {j}
    /\ pc' = [pc EXCEPT ![j] = "ext_inc"]
    /\ UNCHANGED << pdf, page_number, batch_i, semaphores, waiters, current_counts,
                    vectors, n_acquired, n_released >>

\* a chunking handler that hands its chunks over and returns to the page
\* loop before they are embedded and stored
chunking_run_detached(j) ==
    /\ pc[j] = "chunk_run"
    /\ \/ /\ event_chunks(j) = 0
          /\ pc' = [pc EXCEPT ![j] = "ext_inc"]
          /\ UNCHANGED << jobs, pdf, page_number, batch_i, semaphores, waiters,
                          current_counts, published, vectors, n_acquired,
                          n_released, raised >>
       \/ /\ event_chunks(j) > 0
          /\ Publish(j, [type |-> "PdfChunkedEvent",
                         page_number |-> page_number[j],
                         chunks |-> event_chunks(j)])
          /\ pc' = [pc EXCEPT ![j] = "ext_inc"]
          /\ UNCHANGED << jobs, pdf, page_number, batch_i, semaphores, waiters,
                          current_counts, vectors, n_acquired, n_released, raised >>
       \/ chunking_failed(j)
    /\ UNCHANGED << responses, busVars, ledgerVars, textVars, storeVars, projects, vector_expires_at >>

\* lines 71-99: chunk_text returned; no chunks: return; else publish them
chunking_run(j) ==
    /\ pc[j] = "chunk_run"
    /\ \/ /\ event_chunks(j) = 0
          /\ pc' = [pc EXCEPT ![j] = "ext_inc"]
          /\ UNCHANGED << jobs, pdf, page_number, batch_i, semaphores, waiters,
                          current_counts, published, vectors, n_acquired,
                          n_released, raised >>
       \/ /\ event_chunks(j) > 0
          /\ Publish(j, [type |-> "PdfChunkedEvent",
                         page_number |-> page_number[j],
                         chunks |-> event_chunks(j)])
          /\ pc' = [pc EXCEPT ![j] = "embed_start"]
          /\ UNCHANGED << jobs, pdf, page_number, batch_i, semaphores, waiters,
                          current_counts, vectors, n_acquired, n_released, raised >>
       \/ chunking_failed(j)
    /\ UNCHANGED << responses, busVars, ledgerVars, textVars, storeVars, projects, vector_expires_at >>

\* lines 101-112: publish returned, increment the progress of the page
chunking_increment(j) ==
    /\ pc[j] = "chunk_inc"
    /\ jobs' = [jobs EXCEPT ![j] =
                  increment_progress(@, 20 \div total_pages(j), "chunking",
                                     [pages_processed |-> page_number[j],
                                      total_pages |-> total_pages(j),
                                      chunks_created |-> event_chunks(j)])]
    /\ pc' = [pc EXCEPT ![j] = "ext_inc"]
    /\ UNCHANGED << pdf, page_number, batch_i, semaphores, waiters, current_counts,
                    published, vectors, n_acquired, n_released, raised >>
    /\ UNCHANGED << responses, busVars, ledgerVars, textVars, storeVars, projects, vector_expires_at >>

(***************************************************************************)
(* Embedding handler (listeners/embedding_generation_listener.py).         *)
(***************************************************************************)
\* chunk_metadata[0].get('pdf_pages', 0): the chunking handler writes no
\* pdf_pages key into the chunk metadata
pdf_pages(j) == 0

\* an embedding provider that answers with one embedding less than texts
embed_batch_dropping(n_texts) == Max(0, n_texts - 1)

\* GeminiEmbeddingProvider.embed_batch: the number of embeddings returned
\* for a batch of n_texts texts, one per text
embed_batch(n_texts) == n_texts

\* len(all_embeddings) after the batches at the indexes 0, batch_size, .., i
RECURSIVE all_embeddings(_, _)
all_embeddings(i, n_chunks) ==
    IF i < 0 THEN 0
    ELSE all_embeddings(i - batch_size, n_chunks)
            + embed_batch(Min(batch_size, n_chunks - i))

\* the result written by the embedding handler with n embeddings generated
embedding_result(j, n) ==
    [pages_processed |-> pdf_pages(j),
     chunks_created |-> event_chunks(j),
     embeddings_generated |-> n]

\* lines 35-49: set generating_embeddings / 60, call embed_batch on batch 0
embedding_start(j) ==
    /\ pc[j] = "embed_start"
    /\ jobs' = [jobs EXCEPT ![j] =
                  update_status(@, "generating_embeddings", 60, NoneResult, NoneError)]
    /\ batch_i' = [batch_i EXCEPT ![j] = 0]
    /\ pc' = [pc EXCEPT ![j] = "embed_batch"]
    /\ UNCHANGED << pdf, page_number, semaphores, waiters, current_counts,
                    published, vectors, n_acquired, n_released, raised >>
    /\ UNCHANGED << responses, busVars, ledgerVars, textVars, storeVars, projects, vector_expires_at >>

\* lines 92-110: except Exception of the embedding handler
embedding_failed(j) ==
    /\ jobs' = [jobs EXCEPT ![j] =
                  update_status(@, "failed", NoneProgress, NoneResult, Err("embedding"))]
    /\ Publish(j, [type |-> "PdfIngestFailedEvent", stage |-> "embedding"])
    /\ raised' = raised \cup {j}
    /\ pc' = [pc EXCEPT ![j] = "chunk_inc"]
    /\ UNCHANGED << pdf, page_number, batch_i, semaphores, waiters, current_counts,
                    vectors, n_acquired, n_released >>

\* lines 45-90: embed_batch returned for the batch at index i: write the
\* progress; after the last batch write 90 and publish the embeddings
embedding_batch(j) ==
    /\ pc[j] = "embed_batch"
    /\ \/ LET i == batch_i[j]
              n == all_embeddings(i, event_chunks(j))
              progress == 60 + ((i * 30) \div event_chunks(j))
              job1 == update_status(jobs[j], "generating_embeddings", progress,
                                    embedding_result(j, n), NoneError)
          IN  /\ batch_i' = [batch_i EXCEPT ![j] = i + batch_size]
              /\ \/ /\ i + batch_size < event_chunks(j)
                    /\ jobs' = [jobs EXCEPT ![j] = job1]
                    /\ UNCHANGED << pc, published >>
                 \/ /\ i + batch_size >= event_chunks(j)
                    /\ jobs' = [jobs EXCEPT ![j] =
                                  update_status(job1, "generating_embeddings", 90,
                                                embedding_result(j, n), NoneError)]
                    /\ Publish(j, [type |-> "EmbeddingsGeneratedEvent",
                                   page_number |-> page_number[j],
                                   embeddings |-> n])
                    /\ pc' = [pc EXCEPT ![j] = "store"]
          /\ UNCHANGED << pdf, page_number, semaphores, waiters, current_counts,
                          vectors, n_acquired, n_released, raised >>
       \/ embedding_failed(j)
    /\ UNCHANGED << responses, busVars, ledgerVars, textVars, storeVars, projects, vector_expires_at >>

(***************************************************************************)
(* Vector storage handler (listeners/vector_storage_listener.py).          *)
(***************************************************************************)
\* no document in meta_db.projects for the job's project_id
NoProject == [expires_at |-> -1]

\* a record expiring a fixed time after it is written
record_expires_at_from_now(j) == now + ttl_hours

\* lines 44-56 and 77: expires_at of the documents to insert, read from the
\* job's project
record_expires_at(j) == projects[j].expires_at

\* lines 38-42: the handler starts: set storing / 95
storage_start(j) ==
    /\ pc[j] = "store"
    /\ jobs' = [jobs EXCEPT ![j] =
                  update_status(@, "storing", 95, NoneResult, NoneError)]
    /\ pc' = [pc EXCEPT ![j] = "store_write"]
    /\ UNCHANGED << pdf, page_number, batch_i, semaphores, waiters, current_counts,
                    published, vectors, n_acquired, n_released, raised >>
    /\ UNCHANGED << responses, busVars, ledgerVars, textVars, storeVars, projects, vector_expires_at >>

\* lines 144-162: except Exception of the storage handler
storage_failed(j) ==
    /\ jobs' = [jobs EXCEPT ![j] =
                  update_status(@, "failed", NoneProgress, NoneResult, Err("storage"))]
    /\ Publish(j, [type |-> "PdfIngestFailedEvent", stage |-> "storage"])
    /\ raised' = raised \cup {j}
    /\ pc' = [pc EXCEPT ![j] = "chunk_inc"]
    /\ UNCHANGED << pdf, page_number, batch_i, semaphores, waiters, current_counts,
                    vectors, n_acquired, n_released >>

\* len(event.embeddings) of the EmbeddingsGeneratedEvent being handled, the
\* last event published for the job
event_embeddings(j) == published[j][Len(published[j])].embeddings

\* lines 44-140: insert one record per zipped chunk and embedding, mark the
\* job completed with the counts of this event, publish
\* PdfIngestCompletedEvent; no record to insert raises ValueError
storage_write(j) ==
    /\ pc[j] = "store_write"
    /\ \/ LET inserted_count == Min(event_chunks(j), event_embeddings(j))
          IN  /\ projects[j] # NoProject
              /\ inserted_count > 0
              /\ vectors' = [vectors EXCEPT ![j] = @ + inserted_count]
              /\ vector_expires_at' = [vector_expires_at EXCEPT ![j] =
                                          @ \cup {record_expires_at(j)}]
              /\ jobs' = [jobs EXCEPT ![j] =
                            update_status(@, "completed", 100,
                                [pages_processed |-> pdf_pages(j),
                                 chunks_created |-> event_chunks(j),
                                 embeddings_generated |-> event_embeddings(j),
                                 vectors_stored |-> inserted_count],
                                NoneError)]
              /\ Publish(j, [type |-> "PdfIngestCompletedEvent",
                             pages_processed |-> pdf_pages(j),
                             chunks_created |-> event_chunks(j)])
              /\ pc' = [pc EXCEPT ![j] = "chunk_inc"]
              /\ UNCHANGED << pdf, page_number, batch_i, semaphores, waiters,
                              current_counts, n_acquired, n_released, raised >>
       \/ /\ storage_failed(j)       \* project not found, insert_many raised
          /\ UNCHANGED vector_expires_at
    /\ UNCHANGED << responses, busVars, ledgerVars, textVars, storeVars, projects >>

(***************************************************************************)
(* Specification.                                                          *)
(***************************************************************************)
\* entry point, limiter and extraction steps of one job
ExtractionStep(j) ==
    \/ background_saved(j)
    \/ background_failed(j)
    \/ extraction_acquire(j)
    \/ acquire_wakeup(j)
    \/ acquire_timeout(j)
    \/ extraction_begin(j)
    \/ extraction_next_page(j)
    \/ chunking_start(j)
    \/ extraction_increment(j)

\* the steps of the stages behind a page that has text
DownstreamStep(j) ==
    \/ chunking_run(j)
    \/ chunking_increment(j)
    \/ embedding_start(j)
    \/ embedding_batch(j)
    \/ storage_start(j)
    \/ storage_write(j)

JobStep(j) == ExtractionStep(j) \/ DownstreamStep(j)

\* The pipeline: job 1 ingests any document while job 2 competes with it
\* for the concurrency slots.
PipelineJobs == {1, 2}

Next ==
    \/ \E j \in PipelineJobs, plan_name \in PlanNames :
          \E document \in DocumentsOf(j) :
              ingest_files(j, j, PlanNamed(plan_name), SmallUpload, document)
    \/ \E j \in PipelineJobs : JobStep(j)

Spec == Init /\ [][Next]_vars

\* The limiter under load: NumJobs extractions of short documents.
LimiterNext ==
    \/ \E j \in Jobs, plan_name \in PlanNames :
          \E document \in ShortDocuments :
              ingest_files(j, j, PlanNamed(plan_name), SmallUpload, document)
    \/ \E j \in Jobs : ExtractionStep(j)

LimiterSpec == Init /\ [][LimiterNext]_vars

\* The event loop runs every task that is ready and every awaited call of
\* the model returns or raises, so each job's call chain keeps stepping.
FairSpec == Spec /\ \A j \in PipelineJobs : WF_vars(JobStep(j))

\* Only the limiter is fair: a suspended acquire is resumed by a release or
\* by the 100ms timer of wait_for; a job that holds a slot may take forever.
LimiterFairSpec ==
    LimiterSpec /\ \A j \in Jobs : WF_vars(acquire_wakeup(j) \/ acquire_timeout(j))

(***************************************************************************)
(* Properties.                                                             *)
(***************************************************************************)
\* position of a status in queued -> ... -> completed
Rank(status) ==
    CASE status = "queued" -> 0
      [] status = "extracting_text" -> 1
      [] status = "chunking" -> 2
      [] status = "generating_embeddings" -> 3
      [] status = "storing" -> 4
      [] status = "completed" -> 5
      [] OTHER -> 6

\* the job's extraction handler has acquired a slot and not yet released it
Holding(j) ==
    pc[j] \in {"ext_acquired", "ext_next", "ext_inc", "chunk_start", "chunk_run",
               "chunk_inc", "embed_start", "embed_batch", "store", "store_write"}

\* jobs of a plan whose extraction holds a slot
Holders(plan) == { j \in DOMAIN jobs : Holding(j) /\ Title(plan_name_of(j)) = plan }

HasEvent(j, type) == \E k \in 1..Len(published[j]) : published[j][k].type = type

HasFailedEvent(j, stage) ==
    \E k \in 1..Len(published[j]) :
        /\ published[j][k].type = "PdfIngestFailedEvent"
        /\ published[j][k].stage = stage

\* C1: a job's status only moves forward in queued -> extracting_text ->
\* chunking -> generating_embeddings -> storing -> completed, or from a
\* non-terminal status into failed; no step sets an earlier status.
C1_StatusForwardOnly ==
    [][\A j \in DOMAIN jobs :
          LET s == jobs[j].status
              t == jobs'[j].status
          IN  \/ t = s
              \/ t = "failed" /\ s \notin {"completed", "failed"}
              \/ s # "failed" /\ t # "failed" /\ Rank(t) > Rank(s)]_vars

\* C2: a created job none of whose stages raises and that gets a slot
\* eventually has status completed with progress 100.
C2_EventuallyCompleted ==
    \A j \in PipelineJobs :
        [](j \in DOMAIN jobs =>
              <>(/\ j \in DOMAIN jobs
                 /\ \/ j \in raised
                    \/ jobs[j].error.kind = "concurrency"
                    \/ jobs[j].status = "completed" /\ jobs[j].progress = 100))

\* C3: once a job is completed no later step changes its status, progress
\* or result.
C3_CompletedIsTerminal ==
    [][\A j \in DOMAIN jobs :
          jobs[j].status = "completed" =>
              /\ jobs'[j].status = "completed"
              /\ jobs'[j].progress = jobs[j].progress
              /\ jobs'[j].result = jobs[j].result]_vars

\* C4: once a job is failed its status stays failed, no vector record is
\* written for it and no further pipeline event is published for it.
C4_FailedIsFinal ==
    [][\A j \in DOMAIN jobs :
          jobs[j].status = "failed" =>
              /\ jobs'[j].status = "failed"
              /\ vectors'[j] = vectors[j]
              /\ \/ published'[j] = published[j]
                 \/ published'[j][Len(published'[j])].type \notin
                       {"PdfPageExtractedEvent", "PdfChunkedEvent",
                        "EmbeddingsGeneratedEvent", "PdfIngestCompletedEvent"}]_vars

\* C5: every job's progress is in 0..100 in every reachable state.
C5_ProgressInRange ==
    \A j \in DOMAIN jobs : jobs[j].progress \in 0..100

\* C6: the progress of a job that has not failed never decreases.
C6_ProgressMonotone ==
    [][\A j \in DOMAIN jobs :
          (jobs[j].error = NoneError /\ jobs'[j].error = NoneError) =>
              jobs'[j].progress >= jobs[j].progress]_vars

\* C7: for each plan the number of extractions holding a slot is at most
\* the plan's capacity.
C7_HoldersWithinCapacity ==
    \A plan \in DOMAIN LIMITS : Cardinality(Holders(plan)) <= LIMITS[plan]

\* C8: an extraction handler releases exactly once if its acquire succeeded
\* and never if it failed; releases never exceed successful acquires.
C8_ReleaseOncePerAcquire ==
    \A j \in Jobs :
        /\ n_released[j] <= n_acquired[j]
        /\ pc[j] = "done" => n_released[j] = n_acquired[j]

C10_ConcurrencyFailurePublished ==
    \A j \in DOMAIN jobs :
        jobs[j].error.kind = "concurrency" =>
            /\ jobs[j].status = "failed"
            /\ HasFailedEvent(j, "extraction")
            /\ ~HasEvent(j, "PdfPageExtractedEvent")

\* number of PdfIngestFailedEvent of one stage published for a job
FailedEvents(j, stage) ==
    Cardinality({ k \in 1..Len(published[j]) :
                    /\ published[j][k].type = "PdfIngestFailedEvent"
                    /\ published[j][k].stage = stage })

\* C11: every step that marks a job failed leaves the job with an error
\* and publishes a PdfIngestFailedEvent for it in the same step.
C11_FailureRecordedAndPublished ==
    [][\A j \in DOMAIN jobs :
          (jobs[j].status # "failed" /\ jobs'[j].status = "failed") =>
              /\ jobs'[j].error # NoneError
              /\ Len(published'[j]) = Len(published[j]) + 1
              /\ published'[j][Len(published'[j])].type = "PdfIngestFailedEvent"]_vars

\* C12: when the embedding stage of a job has raised there is exactly one
\* PdfIngestFailedEvent of stage embedding for the job, the failing step
\* leaves the job failed with an error, and no vector record is written for
\* the job afterwards.
C12_EmbeddingFailureStopsStorage ==
    [][\A j \in DOMAIN jobs :
          /\ FailedEvents(j, "embedding")' > FailedEvents(j, "embedding") =>
                /\ jobs'[j].status = "failed"
                /\ jobs'[j].error # NoneError
                /\ FailedEvents(j, "embedding")' = 1
          /\ HasFailedEvent(j, "embedding") => vectors'[j] = vectors[j]]_vars

\* C13: while the chunking, embedding or storage handler of a job runs the
\* job holds no concurrency slot: every slot it acquired has been released.
C13_SlotHeldOnlyByExtraction ==
    \A j \in Jobs :
        pc[j] \in {"chunk_start", "chunk_run", "embed_start", "embed_batch",
                   "store", "store_write", "chunk_inc"} =>
            n_acquired[j] = n_released[j]

(***************************************************************************)
(* The limiter with a plan name that has no entry in LIMITS.               *)
(***************************************************************************)
\* plan names outside LIMITS: get_semaphore and get_limit take their defaults
UnknownPlanNames == {"Enterprise"}

\* extractions of short documents by jobs of an unknown plan and of Free,
\* whose semaphore the unknown plan falls back to
FallbackNext ==
    \/ \E j \in Jobs, plan_name \in UnknownPlanNames \cup {"Free"} :
          \E document \in ShortDocuments :
              ingest_files(j, j, PlanNamed(plan_name), SmallUpload, document)
    \/ \E j \in Jobs : ExtractionStep(j)

FallbackSpec == Init /\ [][FallbackNext]_vars

\* C14: of a plan that is not configured at most one extraction holds a
\* slot at a time, and a failed acquire of such a plan reports the limit 1.
C14_UnknownTierUsesLowestCapacity ==
    \A plan \in UnknownPlanNames :
        /\ Cardinality(Holders(plan)) <= 1
        /\ \A j \in DOMAIN jobs :
              (plan_name_of(j) = plan /\ jobs[j].error.kind = "concurrency") =>
                  jobs[j].error.limit = 1

(***************************************************************************)
(* The upload endpoint with files around the plan's size limit.            *)
(***************************************************************************)
EntryNext ==
    \/ \E r \in PipelineJobs, j \in PipelineJobs, plan \in Plans, size_bytes \in UploadSizes :
          \E document \in ShortDocuments :
              ingest_files(r, j, plan, size_bytes, document)
    \/ \E r \in PipelineJobs, plan \in Plans, size_bytes \in UploadSizes :
          ingest_files_rejected(r, plan, size_bytes)
    \/ \E j \in PipelineJobs : ExtractionStep(j)

EntrySpec == Init /\ [][EntryNext]_vars

\* the response to request r says the upload was accepted as job j
Accepted(r, j) == responses[r].status_code = 202 /\ responses[r].job_id = j

\* C15: the request of a file larger than the plan's limit is answered
\* with the validation error and without a job id, and its step changes
\* nothing of the ledger, the stored files or the published events; a file
\* of at most the limit passes validation and gets its job.
C15_OversizedUploadRejected ==
    [][\A r \in Jobs :
          (responses[r] = NoResponse /\ responses'[r] # NoResponse) =>
              LET q == responses'[r]
              IN  IF q.size_bytes > q.pdf_max_size_mb * MB
                  THEN /\ q.status_code = 400
                       /\ q.job_id = NoJob
                       /\ UNCHANGED << pipelineVars, storeVars, ledgerVars, textVars >>
                  ELSE /\ q.status_code = 202
                       /\ q.job_id \in DOMAIN jobs' \ DOMAIN jobs]_vars

\* C15 witness: a file one byte over the limit was refused and no job
\* exists, then a file of exactly the limit was accepted as job 1.
C15_Witness ==
    /\ responses[1].status_code = 400
    /\ responses[1].size_bytes = responses[1].pdf_max_size_mb * MB + 1
    /\ Accepted(2, 1)
    /\ responses[2].size_bytes = responses[2].pdf_max_size_mb * MB
    /\ DOMAIN jobs = {1}

\* C16: in the step in which process returns the job id the job is in the
\* ledger with status queued and progress 0 and its background task has not
\* run: nothing is saved, published or stored for it.  Every later change
\* of the job and every event of it comes after the id was returned.
C16_ProcessReturnsBeforePipeline ==
    [][/\ \A r \in Jobs :
             (responses[r] = NoResponse /\ responses'[r].status_code = 202) =>
                 LET j == responses'[r].job_id
                 IN  /\ j \in DOMAIN jobs' \ DOMAIN jobs
                     /\ jobs'[j].status = "queued"
                     /\ jobs'[j].progress = 0
                     /\ pc'[j] = "bg_save"
                     /\ published'[j] = << >>
                     /\ vectors'[j] = 0
       /\ \A j \in Jobs :
             (published'[j] # published[j] \/ pc[j] \notin {"new", pc'[j]}) =>
                 \E r \in Jobs : Accepted(r, j)]_vars

\* C16 witness: the id of job 1 has been returned, the job is queued with
\* progress 0 and its background task has not saved the file yet.
C16_Witness ==
    /\ \E r \in Jobs : Accepted(r, 1)
    /\ jobs[1].status = "queued"
    /\ jobs[1].progress = 0
    /\ pc[1] = "bg_save"
    /\ published[1] = << >>

(***************************************************************************)
(* EventBus (infra/event_bus.py): subscribe and one publish call at a      *)
(* time, observed through the calls its handlers receive.  Handlers are    *)
(* registered by the decorator on a new function each, before the first    *)
(* publish; their numbers are the order of registration.  A handler ends   *)
(* by returning or by raising an Exception.                                *)
(***************************************************************************)
Range(seq) == { seq[i] : i \in 1..Len(seq) }

\* every handler registered so far, for any event type
RegisteredHandlers ==
    UNION { Range(sync_listeners[t]) \cup Range(async_listeners[t]) : t \in EventTypes }

\* subscribe putting the new handler at the head of the list
register_first(listeners, handler) == << handler >> \o listeners

\* subscribe, lines 54 and 57: list.append
register(listeners, handler) == Append(listeners, handler)

\* publish, lines 74 and 82: dict.get(event_type, [])
listeners_for(registry, event_type) ==
    IF event_type \in DOMAIN registry THEN registry[event_type] ELSE << >>

\* the handlers publish has to call for the event being published
HandlersOf(event_type) ==
    Range(listeners_for(sync_listeners, event_type))
        \cup Range(listeners_for(async_listeners, event_type))

\* EventBus.subscribe(event_type, async_handler) applied to a new handler
subscribe(event_type, async_handler) ==
    /\ bus_pc = "idle"
    /\ publish_outcome = "None"
    /\ Cardinality(RegisteredHandlers) < MaxHandlers
    /\ LET handler == Cardinality(RegisteredHandlers) + 1
       IN  IF async_handler
           THEN /\ async_listeners' = [async_listeners EXCEPT ![event_type] =
                                          register(@, handler)]
                /\ UNCHANGED sync_listeners
           ELSE /\ sync_listeners' = [sync_listeners EXCEPT ![event_type] =
                                         register(@, handler)]
                /\ UNCHANGED async_listeners
    /\ UNCHANGED << bus_pc, bus_event, sync_i, tasks, calls, publish_outcome >>
    /\ UNCHANGED << pipelineVars, responses, storeVars, ledgerVars, textVars >>

\* publish, line 71: the call starts with the type of the event
publish(event_type) ==
    /\ bus_pc = "idle"
    /\ bus_event' = event_type
    /\ sync_i' = 1
    /\ tasks' = << >>
    /\ calls' = << >>
    /\ publish_outcome' = "None"
    /\ bus_pc' = "sync"
    /\ UNCHANGED << sync_listeners, async_listeners >>
    /\ UNCHANGED << pipelineVars, responses, storeVars, ledgerVars, textVars >>

\* the sync loop without its try/except: the handler's exception leaves
\* publish
sync_listener_call_unguarded(outcome) ==
    /\ bus_pc = "sync"
    /\ sync_i <= Len(listeners_for(sync_listeners, bus_event))
    /\ LET listener == listeners_for(sync_listeners, bus_event)[sync_i]
       IN  calls' = calls \o << [handler |-> listener, what |-> "invoked"],
                                [handler |-> listener, what |-> outcome] >>
    /\ IF outcome = "raised"
       THEN /\ bus_pc' = "idle"
            /\ publish_outcome' = "raised"
            /\ UNCHANGED sync_i
       ELSE /\ sync_i' = sync_i + 1
            /\ UNCHANGED << bus_pc, publish_outcome >>
    /\ UNCHANGED << sync_listeners, async_listeners, bus_event, tasks >>
    /\ UNCHANGED << pipelineVars, responses, storeVars, ledgerVars, textVars >>

\* publish, lines 74-78: the next sync listener is called; it returns or
\* raises, the exception is logged and the loop goes on
sync_listener_call(outcome) ==
    /\ bus_pc = "sync"
    /\ sync_i <= Len(listeners_for(sync_listeners, bus_event))
    /\ LET listener == listeners_for(sync_listeners, bus_event)[sync_i]
       IN  calls' = calls \o << [handler |-> listener, what |-> "invoked"],
                                [handler |-> listener, what |-> outcome] >>
    /\ sync_i' = sync_i + 1
    /\ UNCHANGED << sync_listeners, async_listeners, bus_pc, bus_event, tasks,
                    publish_outcome >>
    /\ UNCHANGED << pipelineVars, responses, storeVars, ledgerVars, textVars >>

\* publish, lines 81-86: after the sync loop one _safe_async_call coroutine
\* per async listener is handed to gather; with none publish returns
create_tasks ==
    /\ bus_pc = "sync"
    /\ sync_i > Len(listeners_for(sync_listeners, bus_event))
    /\ LET async_tasks == listeners_for(async_listeners, bus_event)
       IN  IF async_tasks = << >>
           THEN /\ bus_pc' = "idle"
                /\ publish_outcome' = "returned"
                /\ UNCHANGED tasks
           ELSE /\ tasks' = [h \in Range(async_tasks) |-> "created"]
                /\ bus_pc' = "gather"
                /\ UNCHANGED publish_outcome
    /\ UNCHANGED << sync_listeners, async_listeners, bus_event, sync_i, calls >>
    /\ UNCHANGED << pipelineVars, responses, storeVars, ledgerVars, textVars >>

\* _safe_async_call, lines 90-91: the event loop starts a gathered task,
\* which calls its listener
task_run(h) ==
    /\ bus_pc = "gather"
    /\ h \in DOMAIN tasks
    /\ tasks[h] = "created"
    /\ tasks' = [tasks EXCEPT ![h] = "running"]
    /\ calls' = Append(calls, [handler |-> h, what |-> "invoked"])
    /\ UNCHANGED << sync_listeners, async_listeners, bus_pc, bus_event, sync_i,
                    publish_outcome >>
    /\ UNCHANGED << pipelineVars, responses, storeVars, ledgerVars, textVars >>

\* _safe_async_call, lines 91-93: the listener returns or raises; the
\* exception is logged and the task ends normally
task_end(h, outcome) ==
    /\ bus_pc = "gather"
    /\ h \in DOMAIN tasks
    /\ tasks[h] = "running"
    /\ tasks' = [tasks EXCEPT ![h] = outcome]
    /\ calls' = Append(calls, [handler |-> h, what |-> outcome])
    /\ UNCHANGED << sync_listeners, async_listeners, bus_pc, bus_event, sync_i,
                    publish_outcome >>
    /\ UNCHANGED << pipelineVars, responses, storeVars, ledgerVars, textVars >>

\* publish resuming as soon as the tasks exist, without awaiting them
gather_returns_early ==
    /\ bus_pc = "gather"
    /\ bus_pc' = "idle"
    /\ publish_outcome' = "returned"
    /\ UNCHANGED << sync_listeners, async_listeners, bus_event, sync_i, tasks, calls >>
    /\ UNCHANGED << pipelineVars, responses, storeVars, ledgerVars, textVars >>

\* publish, line 86: gather resumes publish when every task has ended
gather_returns ==
    /\ bus_pc = "gather"
    /\ \A h \in DOMAIN tasks : tasks[h] \in {"returned", "raised"}
    /\ bus_pc' = "idle"
    /\ publish_outcome' = "returned"
    /\ UNCHANGED << sync_listeners, async_listeners, bus_event, sync_i, tasks, calls >>
    /\ UNCHANGED << pipelineVars, responses, storeVars, ledgerVars, textVars >>

BusNext ==
    \/ \E event_type \in EventTypes, async_handler \in BOOLEAN :
          subscribe(event_type, async_handler)
    \/ \E event_type \in EventTypes : publish(event_type)
    \/ \E outcome \in {"returned", "raised"} : sync_listener_call(outcome)
    \/ create_tasks
    \/ \E h \in Handlers : task_run(h)
    \/ \E h \in Handlers, outcome \in {"returned", "raised"} : task_end(h, outcome)
    \/ gather_returns

BusSpec == Init /\ [][BusNext]_vars

\* positions of the calls log at which handler h was invoked / ended
InvokedAt(log, h) ==
    { p \in 1..Len(log) : log[p].handler = h /\ log[p].what = "invoked" }

EndedAt(log, h) ==
    { p \in 1..Len(log) : log[p].handler = h /\ log[p].what \in {"returned", "raised"} }

\* the step in which publish returns to, or raises into, its caller
PublishEnds == bus_pc # "idle" /\ bus_pc' = "idle"

\* C17: during a publish every sync handler of the event's type is invoked
\* only after all sync handlers registered before it have ended, and no
\* async handler is invoked before every sync handler of the type has
\* returned or raised.
C17_SyncFirstInOrder ==
    \A p \in 1..Len(calls) :
        calls[p].what = "invoked" =>
            LET h == calls[p].handler
                sync == Range(listeners_for(sync_listeners, bus_event))
                before == IF h \in sync THEN { g \in sync : g < h } ELSE sync
            IN  \A g \in before : \E q \in EndedAt(calls, g) : q < p

\* C17 witness: a publish has returned after two sync handlers and then an
\* async handler of the event's type ran.
C17_Witness ==
    /\ bus_pc = "idle"
    /\ publish_outcome = "returned"
    /\ Len(listeners_for(sync_listeners, bus_event)) = 2
    /\ Len(listeners_for(async_listeners, bus_event)) = 1
    /\ Len(calls) = 6

\* C18: publish never raises, and when it ends after some handler raised,
\* every handler registered for the event's type has still been invoked
\* and has ended.
C18_HandlerFailuresIsolated ==
    [][PublishEnds =>
          /\ publish_outcome' = "returned"
          /\ (\E p \in 1..Len(calls') : calls'[p].what = "raised") =>
                \A h \in HandlersOf(bus_event) :
                    \E p \in InvokedAt(calls', h) :
                        \E q \in EndedAt(calls', h) : p < q]_vars

\* C18 witness: a publish has returned although the first sync handler and
\* one async handler raised; a sync and an async handler called after a
\* failure returned.
C18_Witness ==
    /\ bus_pc = "idle"
    /\ publish_outcome = "returned"
    /\ \E s1, s2 \in Range(listeners_for(sync_listeners, bus_event)) :
          /\ s1 < s2
          /\ [handler |-> s1, what |-> "raised"] \in Range(calls)
          /\ [handler |-> s2, what |-> "returned"] \in Range(calls)
    /\ \E a \in Range(listeners_for(async_listeners, bus_event)) :
          [handler |-> a, what |-> "raised"] \in Range(calls)

\* C19: when publish returns every handler registered for the event's type
\* has been invoked exactly once and has ended exactly once, and every
\* call of the publish went to a handler registered for that type.
C19_AllHandlersOfTypeOnce ==
    [][PublishEnds =>
          /\ \A h \in HandlersOf(bus_event) :
                /\ Cardinality(InvokedAt(calls', h)) = 1
                /\ Cardinality(EndedAt(calls', h)) = 1
          /\ \A p \in 1..Len(calls') : calls'[p].handler \in HandlersOf(bus_event)]_vars

\* C19 witness: a publish has returned having called the sync and the async
\* handler of its type, while a handler of the other type was not called.
C19_Witness ==
    /\ bus_pc = "idle"
    /\ publish_outcome = "returned"
    /\ Len(listeners_for(sync_listeners, bus_event)) = 1
    /\ Len(listeners_for(async_listeners, bus_event)) = 1
    /\ Len(calls) = 4
    /\ RegisteredHandlers \ HandlersOf(bus_event) # {}

(***************************************************************************)
(* PdfStorage (infra/pdf_storage.py): the temporary GridFS bucket.         *)
(***************************************************************************)
\* the values of a byte of the model and the contents a PDF file can have
ByteValues == {0, 1}
PdfContents == SeqsUpTo(ByteValues, MaxBytes)

\* hashlib.sha256(pdf_bytes).hexdigest(): the digest is a code of the whole
\* content, read here as a numeral; SHA-256 is taken to be free of
\* collisions, so different contents of the model have different codes
RECURSIVE sha256(_)
sha256(pdf_bytes) ==
    IF pdf_bytes = << >> THEN 0
    ELSE (Head(pdf_bytes) + 1) + (Cardinality(ByteValues) + 1) * sha256(Tail(pdf_bytes))

\* a hash computed over the content together with the job id of the metadata
calculate_hash_with_job(pdf_bytes, metadata) ==
    sha256(pdf_bytes) * (NumJobs + 1) + metadata.job_id

\* save_or_reuse, lines 79-82: _calculate_hash, run in the executor
calculate_hash(pdf_bytes, metadata) == sha256(pdf_bytes)

\* a save that reuses the file already stored for the hash: it adds a
\* reference to it and extends its expiry instead of storing the bytes again
save_or_reuse_deduplicating(j, pdf_bytes, metadata) ==
    /\ returned_hash[j] = NoHash
    /\ \A k \in Jobs : k < j => returned_hash[k] # NoHash
    /\ LET content_hash == calculate_hash(pdf_bytes, metadata)
           same == { k \in 1..Len(fs_files) :
                        fs_files[k].metadata.content_hash = content_hash }
       IN  /\ IF same # {}
              THEN \E k \in same :
                      fs_files' = [fs_files EXCEPT
                                     ![k].metadata.reference_count = @ + 1,
                                     ![k].metadata.expires_at = now + ttl_hours]
              ELSE fs_files' = Append(fs_files,
                             [filename |-> metadata.job_id,
                              content |-> pdf_bytes,
                              metadata |-> [content_hash |-> content_hash,
                                            size_bytes |-> Len(pdf_bytes),
                                            expires_at |-> now + ttl_hours,
                                            created_at |-> now,
                                            reference_count |-> NoCount,
                                            job_id |-> metadata.job_id,
                                            plan_name |-> metadata.plan_name]])
           /\ returned_hash' = [returned_hash EXCEPT ![j] = content_hash]
    /\ UNCHANGED << now, fetched >>
    /\ UNCHANGED << pipelineVars, responses, busVars, ledgerVars, textVars >>

\* PdfStorage.save_or_reuse for the background task of job j: the file is
\* always put into the bucket, the hash of its content is returned
save_or_reuse(j, pdf_bytes, metadata) ==
    /\ returned_hash[j] = NoHash
    /\ \A k \in Jobs : k < j => returned_hash[k] # NoHash
    /\ LET content_hash == calculate_hash(pdf_bytes, metadata)
       IN  /\ fs_files' = Append(fs_files,
                             [filename |-> metadata.job_id,
                              content |-> pdf_bytes,
                              metadata |-> [content_hash |-> content_hash,
                                            size_bytes |-> Len(pdf_bytes),
                                            expires_at |-> now + ttl_hours,
                                            created_at |-> now,
                                            reference_count |-> NoCount,
                                            job_id |-> metadata.job_id,
                                            plan_name |-> metadata.plan_name]])
           /\ returned_hash' = [returned_hash EXCEPT ![j] = content_hash]
    /\ UNCHANGED << now, fetched >>
    /\ UNCHANGED << pipelineVars, responses, busVars, ledgerVars, textVars >>

\* the background tasks of the jobs save their files, pdf_ingest_strategy.py
\* lines 147-150
StoreNext ==
    \E j \in Jobs, pdf_bytes \in PdfContents, plan_name \in PlanNames :
        save_or_reuse(j, pdf_bytes, [job_id |-> j, plan_name |-> plan_name])

StoreSpec == Init /\ [][StoreNext]_vars

\* the files saved for a job
FilesOf(j) == { k \in 1..Len(fs_files) : fs_files[k].metadata.job_id = j }

tick ==
    /\ now + ClockStep <= MaxNow
    /\ now' = now + ClockStep
    /\ UNCHANGED << fs_files, returned_hash, fetched >>
    /\ UNCHANGED << pipelineVars, responses, busVars, ledgerVars, textVars >>

\* the file's metadata.expires_at is in the past
expired(file) == file.metadata.expires_at < now

unexpired(file) == ~expired(file)

\* TTL index on metadata.expires_at (__init__, lines 39-44): a pass of the
\* TTL monitor deletes the documents that have expired; it runs once a
\* minute, so expired documents stay readable until the next pass
ttl_monitor ==
    /\ \E k \in 1..Len(fs_files) : expired(fs_files[k])
    /\ fs_files' = SelectSeq(fs_files, unexpired)
    /\ UNCHANGED << returned_hash, now, fetched >>
    /\ UNCHANGED << pipelineVars, responses, busVars, ledgerVars, textVars >>

\* the files find_one({"metadata.content_hash": content_hash}) can return
matching(content_hash) ==
    { k \in 1..Len(fs_files) : fs_files[k].metadata.content_hash = content_hash }

\* PdfStorage.get_by_hash: the bytes of a file with the hash, found without
\* looking at its expiry, or FileNotFoundError when the bucket has none
get_by_hash(content_hash) ==
    /\ \/ \E k \in matching(content_hash) :
            fetched' = [result |-> "bytes", content_hash |-> content_hash,
                        pdf_bytes |-> fs_files[k].content]
       \/ /\ matching(content_hash) = {}
          /\ fetched' = [result |-> "FileNotFoundError", content_hash |-> content_hash,
                         pdf_bytes |-> << >>]
    /\ UNCHANGED << fs_files, returned_hash, now >>
    /\ UNCHANGED << pipelineVars, responses, busVars, ledgerVars, textVars >>

\* the hashes of the contents of the model
ContentHashes == { sha256(pdf_bytes) : pdf_bytes \in PdfContents }

ExpiryNext ==
    \/ \E j \in Jobs, pdf_bytes \in PdfContents :
          save_or_reuse(j, pdf_bytes, [job_id |-> j, plan_name |-> "Free"])
    \/ tick
    \/ ttl_monitor
    \/ \E content_hash \in ContentHashes : get_by_hash(content_hash)

ExpirySpec == Init /\ [][ExpiryNext]_vars

\* C21: a get_by_hash call for a hash all of whose files in the bucket have
\* expired ends with FileNotFoundError, also when the TTL monitor has not
\* removed the files yet.
C21_ExpiredBlobNotReturned ==
    [][\A content_hash \in ContentHashes :
          (/\ fetched' # fetched
           /\ fetched'.content_hash = content_hash
           /\ \A k \in matching(content_hash) : expired(fs_files[k])) =>
              fetched'.result = "FileNotFoundError"]_vars

(***************************************************************************)
(* One ingestion into a project that expires while time passes             *)
(* (jobs/cleanup_expired_databases.py, services/create_project.py).        *)
(***************************************************************************)
\* create_project, lines 105-106: expires_at = creation time + the plan's
\* retention_hours; the projects of the model are created at hour 0
RetentionHours == {ClockStep, MaxRetention}

\* the job that ingests into the project under observation
ProjectJobs == {1}

ProjectInit ==
    /\ PipelineInit
    /\ \E retention_hours \in RetentionHours :
          projects = [j \in Jobs |->
                        [expires_at |-> IF j \in ProjectJobs THEN retention_hours
                                        ELSE MaxRetention]]

\* cleanup_expired_databases: the database of an expired project is dropped
\* with its vector collections, then the project document is deleted
cleanup_expired_databases ==
    /\ \E j \in Jobs : projects[j] # NoProject /\ projects[j].expires_at < now
    /\ LET expired_projects ==
              { j \in Jobs : projects[j] # NoProject /\ projects[j].expires_at < now }
       IN  /\ projects' = [j \in Jobs |->
                             IF j \in expired_projects THEN NoProject ELSE projects[j]]
           /\ vectors' = [j \in Jobs |->
                            IF j \in expired_projects THEN 0 ELSE vectors[j]]
           /\ vector_expires_at' = [j \in Jobs |->
                                      IF j \in expired_projects THEN {}
                                      ELSE vector_expires_at[j]]
    /\ UNCHANGED << jobs, pdf, pc, page_number, batch_i, semaphores, waiters,
                    current_counts, published, n_acquired, n_released, raised >>
    /\ UNCHANGED << responses, busVars, ledgerVars, textVars, storeVars >>

\* the steps of a job that never has to wait for a slot
UncontendedStep(j) ==
    \/ background_saved(j)
    \/ background_failed(j)
    \/ extraction_acquire(j)
    \/ extraction_begin(j)
    \/ extraction_next_page(j)
    \/ chunking_start(j)
    \/ extraction_increment(j)
    \/ DownstreamStep(j)

ProjectNext ==
    \/ \E j \in ProjectJobs, plan_name \in PlanNames :
          \E document \in Documents :
              ingest_files(j, j, PlanNamed(plan_name), SmallUpload, document)
    \/ \E j \in ProjectJobs : UncontendedStep(j)
    \/ tick
    \/ cleanup_expired_databases

ProjectSpec == ProjectInit /\ [][ProjectNext]_vars

\* C22: every storage write gives all the records it inserts the expires_at
\* that the job's project has at that moment, so the records of a job
\* never carry another expiry than its project.
C22_VectorExpiryIsProjectExpiry ==
    [][\A j \in Jobs :
          vectors'[j] > vectors[j] =>
              /\ projects[j] # NoProject
              /\ vector_expires_at'[j] = {projects[j].expires_at}]_vars

\* C22 witness: after hour 0 two pages of a job have been stored into a
\* project that ends at hour 12, each record with expires_at 12.
C22_Witness ==
    /\ now > 0
    /\ projects[1] = [expires_at |-> ClockStep]
    /\ vectors[1] > MaxChunks
    /\ vector_expires_at[1] = {ClockStep}

\* C23: whenever a job's status is completed its result carries
\* chunks_created, embeddings_generated and vectors_stored, all equal.
C23_CompletedCountsAgree ==
    \A j \in DOMAIN jobs :
        jobs[j].status = "completed" =>
            /\ {"chunks_created", "embeddings_generated", "vectors_stored"}
                  \subseteq DOMAIN jobs[j].result
            /\ jobs[j].result.chunks_created = jobs[j].result.embeddings_generated
            /\ jobs[j].result.embeddings_generated = jobs[j].result.vectors_stored

\* C23 witness: a job is completed after a page of MaxChunks chunks, embedded
\* in two batches, was stored.
C23_Witness ==
    \E j \in DOMAIN jobs :
        /\ jobs[j].status = "completed"
        /\ jobs[j].result.vectors_stored = MaxChunks
        /\ vectors[j] >= MaxChunks

IsPageExtracted(event) == event.type = "PdfPageExtractedEvent"

\* the PdfPageExtractedEvent published for a job, in order
PageEvents(j) == SelectSeq(published[j], IsPageExtracted)

\* the extraction handler of the job got a slot, read every page and
\* returned without an exception
ExtractionFinished(j) ==
    /\ pc[j] = "done"
    /\ n_acquired[j] > 0
    /\ ~HasFailedEvent(j, "extraction")

\* C24: the k-th PdfPageExtractedEvent of a job has page_number k and the
\* document's number of pages as total_pages, and when the extraction of an
\* N-page document has finished there are exactly N of them.
C24_OnePageEventPerPage ==
    \A j \in Jobs :
        /\ \A k \in 1..Len(PageEvents(j)) :
              /\ PageEvents(j)[k].page_number = k
              /\ PageEvents(j)[k].total_pages = total_pages(j)
        /\ ExtractionFinished(j) => Len(PageEvents(j)) = total_pages(j)

\* C24 witness: the extraction of a document of MaxPages pages, the first
\* without text, has finished with MaxPages page events.
C24_Witness ==
    /\ ExtractionFinished(1)
    /\ total_pages(1) = MaxPages
    /\ pdf[1][1].text_length = 0
    /\ Len(PageEvents(1)) = MaxPages

\* the progress band of a stage status
StageBand(status) ==
    CASE status = "extracting_text" -> 10..40
      [] status = "chunking" -> 40..60
      [] status = "generating_embeddings" -> 60..90
      [] status = "storing" -> 90..100
      [] OTHER -> 0..100

\* C25: while a multi-page document is ingested and no stage has raised, the
\* job's progress lies in the band of its status: 10..40 while
\* extracting_text, 40..60 while chunking, 60..90 while
\* generating_embeddings, 90..100 while storing.
C25_ProgressWithinStageBand ==
    \A j \in Jobs :
        (total_pages(j) >= 2 /\ j \notin raised)
            => jobs[j].progress \in StageBand(jobs[j].status)

IsIngestCompleted(event) == event.type = "PdfIngestCompletedEvent"

\* the PdfIngestCompletedEvent published for a job, in order
CompletedEvents(j) == SelectSeq(published[j], IsIngestCompleted)

\* C26: when the ingestion of an N-page document (N >= 1) has finished, the
\* job's result holds pages_processed = N and every PdfIngestCompletedEvent
\* of the job carries pages_processed = N.
C26_PagesProcessedIsPageCount ==
    \A j \in Jobs :
        (ExtractionFinished(j) /\ total_pages(j) >= 1)
            => /\ jobs[j].result.pages_processed = total_pages(j)
               /\ \A k \in 1..Len(CompletedEvents(j)) :
                     CompletedEvents(j)[k].pages_processed = total_pages(j)

\* the number of chunks carried by the first n events of a sequence
RECURSIVE ChunksIn(_, _)
ChunksIn(events, n) ==
    IF n = 0 THEN 0
    ELSE ChunksIn(events, n - 1)
           + (IF events[n].type = "PdfChunkedEvent" THEN events[n].chunks ELSE 0)

\* the chunks produced so far for all the pages of a job
TotalChunks(j) == ChunksIn(published[j], Len(published[j]))

\* C27: the result of a job whose status is completed, no stage having
\* raised, holds the totals of the job: chunks_created is the number of
\* chunks produced for all its pages and vectors_stored the number of vector
\* records written for it.
C27_CompletedCountsAreAggregates ==
    \A j \in Jobs :
        (j \in DOMAIN jobs /\ jobs[j].status = "completed" /\ j \notin raised)
            => /\ jobs[j].result.chunks_created = TotalChunks(j)
               /\ jobs[j].result.vectors_stored = vectors[j]

\* the events that carry the number of the page they were produced for
HasPage(event) ==
    event.type \in {"PdfPageExtractedEvent", "PdfChunkedEvent",
                    "EmbeddingsGeneratedEvent"}

\* an event of the given type for page k among the first n events of a job
StageEventBefore(j, type, k, n) ==
    \E a \in 1..n :
        /\ published[j][a].type = type
        /\ published[j][a].page_number = k

\* the storage handler's outcome for an EmbeddingsGeneratedEvent
StorageOutcome(event) ==
    \/ event.type = "PdfIngestCompletedEvent"
    \/ event.type = "PdfIngestFailedEvent" /\ event.stage = "storage"

\* C28: within a job the stages handle the pages in page-number order: the
\* page numbers of the stage events never decrease, the storage outcome of a
\* page directly follows its embeddings, and when page k + 1 is extracted
\* the chunks and the embeddings of page k (a page with chunks, no stage
\* having raised) have already been published, its storage included.
C28_PagesInOrderThroughStages ==
    \A j \in Jobs :
        LET events == published[j]
        IN  /\ \A a, b \in 1..Len(events) :
                  (a < b /\ HasPage(events[a]) /\ HasPage(events[b]))
                      => events[a].page_number <= events[b].page_number
            /\ \A a \in 1..(Len(events) - 1) :
                  events[a].type = "EmbeddingsGeneratedEvent"
                      => StorageOutcome(events[a + 1])
            /\ \A b \in 1..Len(events) :
                  (/\ events[b].type = "PdfPageExtractedEvent"
                   /\ events[b].page_number >= 2
                   /\ pdf[j][events[b].page_number - 1].text_length > 0
                   /\ pdf[j][events[b].page_number - 1].nchunks > 0
                   /\ j \notin raised)
                      => /\ StageEventBefore(j, "PdfChunkedEvent",
                                             events[b].page_number - 1, b - 1)
                         /\ StageEventBefore(j, "EmbeddingsGeneratedEvent",
                                             events[b].page_number - 1, b - 1)
                         /\ StorageOutcome(events[b - 1])

\* C28 witness: both pages of a two-page document have been chunked,
\* embedded and stored.
C28_Witness ==
    /\ pc[1] = "done"
    /\ 1 \notin raised
    /\ total_pages(1) = 2
    /\ Len(CompletedEvents(1)) = 2
    /\ StageEventBefore(1, "EmbeddingsGeneratedEvent", 2, Len(published[1]))

\* a downstream handler of the page in flight is at work: chunking,
\* embedding or storing it
DownstreamAtWork(j) ==
    pc[j] \in {"chunk_run", "embed_start", "embed_batch", "store", "store_write"}

\* C29: a handoff does not block the publisher: while the chunking, the
\* embedding or the storage of a page is at work, the extraction handler
\* that published the page can take its next step.
C29_PublisherNotBlockedByDownstream ==
    \A j \in Jobs : DownstreamAtWork(j) => ENABLED extraction_increment(j)

\* the page of a job's k-th event, a PdfPageExtractedEvent, has no text
EmptyPageEvent(j, b) ==
    /\ published[j][b].type = "PdfPageExtractedEvent"
    /\ pdf[j][published[j][b].page_number].text_length = 0

\* C30: a page without text is skipped by the chunking handler: no
\* PdfChunkedEvent is published for it; the event after its
\* PdfPageExtractedEvent is the next page's (or the extraction's own
\* failure), so no chunking failure is published and the next page is
\* processed; and when the extraction handler resumes after the page the
\* ledger still shows the extraction handler's last write, status
\* extracting_text with the result of the previous page.
C30_EmptyPageSkipped ==
    \A j \in Jobs :
        /\ \A b \in 1..Len(published[j]) :
              EmptyPageEvent(j, b)
                  => /\ ~StageEventBefore(j, "PdfChunkedEvent",
                                          published[j][b].page_number,
                                          Len(published[j]))
                     /\ b < Len(published[j])
                           => \/ /\ published[j][b + 1].type = "PdfPageExtractedEvent"
                                 /\ published[j][b + 1].page_number
                                       = published[j][b].page_number + 1
                              \/ /\ published[j][b + 1].type = "PdfIngestFailedEvent"
                                 /\ published[j][b + 1].stage = "extraction"
        /\ (/\ pc[j] = "ext_inc"
            /\ pdf[j][page_number[j]].text_length = 0)
              => /\ jobs[j].status = "extracting_text"
                 /\ jobs[j].result =
                       IF page_number[j] = 1 THEN << >>
                       ELSE [pages_processed |-> page_number[j] - 1,
                             total_pages |-> total_pages(j)]

\* C30 witness: a document whose first page has no text and whose second
\* page has been chunked, embedded and stored has finished.
C30_Witness ==
    /\ ExtractionFinished(1)
    /\ 1 \notin raised
    /\ total_pages(1) = 2
    /\ EmptyPageEvent(1, 2)
    /\ StageEventBefore(1, "PdfChunkedEvent", 2, Len(published[1]))
    /\ Len(CompletedEvents(1)) = 1

(***************************************************************************)
(* The job ledger under arbitrary callers (infra/job_repository.py): any   *)
(* handler may call update_status or increment_progress on a job at any    *)
(* time, each call being one update_one on the job's document.             *)
(***************************************************************************)
LedgerJobs == {1}

\* the arguments the callers pass
StatusArgs == {"chunking", "completed", "failed"}
ProgressArgs == {NoneProgress, 50}
ResultArgs == {NoneResult, [chunks_created |-> 1]}
ErrorArgs == {NoneError, Err("storage")}
Deltas == {10, 15}

\* JobRepository.create called for a new job
ledger_create(j) ==
    /\ j \notin DOMAIN jobs
    /\ jobs' = (j :> create("Free")) @@ jobs
    /\ UNCHANGED << pdf, pc, page_number, batch_i, semaphores, waiters,
                    current_counts, published, vectors, n_acquired, n_released,
                    raised, projects, vector_expires_at >>
    /\ UNCHANGED << responses, busVars, storeVars, ledgerVars, textVars >>

\* JobRepository.update_status called by some handler
ledger_update_status(j, status, progress, result, error) ==
    /\ j \in DOMAIN jobs
    /\ Len(ledger_calls[j]) < MaxCalls
    /\ jobs' = [jobs EXCEPT ![j] = update_status(@, status, progress, result, error)]
    /\ ledger_calls' = [ledger_calls EXCEPT ![j] =
                          Append(@, [method |-> "update_status", status |-> status,
                                     progress |-> progress, delta |-> 0])]
    /\ UNCHANGED << pdf, pc, page_number, batch_i, semaphores, waiters,
                    current_counts, published, vectors, n_acquired, n_released,
                    raised, projects, vector_expires_at >>
    /\ UNCHANGED << responses, busVars, storeVars, textVars >>

\* JobRepository.increment_progress called by some handler
ledger_increment_progress(j, delta, status, result) ==
    /\ j \in DOMAIN jobs
    /\ Len(ledger_calls[j]) < MaxCalls
    /\ jobs' = [jobs EXCEPT ![j] = increment_progress(@, delta, status, result)]
    /\ ledger_calls' = [ledger_calls EXCEPT ![j] =
                          Append(@, [method |-> "increment_progress",
                                     status |-> status,
                                     progress |-> NoneProgress, delta |-> delta])]
    /\ UNCHANGED << pdf, pc, page_number, batch_i, semaphores, waiters,
                    current_counts, published, vectors, n_acquired, n_released,
                    raised, projects, vector_expires_at >>
    /\ UNCHANGED << responses, busVars, storeVars, textVars >>

LedgerNext ==
    \/ \E j \in LedgerJobs : ledger_create(j)
    \/ \E j \in LedgerJobs, status \in StatusArgs, progress \in ProgressArgs,
          result \in ResultArgs, error \in ErrorArgs :
          ledger_update_status(j, status, progress, result, error)
    \/ \E j \in LedgerJobs, delta \in Deltas, status \in {"", "chunking"},
          result \in ResultArgs :
          ledger_increment_progress(j, delta, status, result)
    \/ tick

LedgerSpec == Init /\ [][LedgerNext]_vars

\* C31: update_status writes the status and updated_at and, of progress,
\* result and error, the ones it is given; completed forces progress to 100
\* and sets completed_at whatever progress was passed; failed sets
\* completed_at and, given no progress, leaves progress as it was; a result
\* or error that is not passed keeps its value; nothing else changes.
C31_UpdateStatusWritesGivenFields ==
    [][\A j \in LedgerJobs, status \in StatusArgs, progress \in ProgressArgs,
          result \in ResultArgs, error \in ErrorArgs :
          ledger_update_status(j, status, progress, result, error)
            => /\ jobs'[j].status = status
               /\ jobs'[j].updated_at = now
               /\ status = "completed"
                     => jobs'[j].progress = 100 /\ jobs'[j].completed_at
               /\ status = "failed" => jobs'[j].completed_at
               /\ (status # "completed" /\ progress = NoneProgress)
                     => jobs'[j].progress = jobs[j].progress
               /\ (status # "completed" /\ progress # NoneProgress)
                     => jobs'[j].progress = progress
               /\ status \notin {"completed", "failed"}
                     => jobs'[j].completed_at = jobs[j].completed_at
               /\ jobs'[j].result = IF result = NoneResult THEN jobs[j].result
                                    ELSE result
               /\ jobs'[j].error = IF error = NoneError THEN jobs[j].error
                                   ELSE error
               /\ jobs'[j].type = jobs[j].type
               /\ jobs'[j].metadata = jobs[j].metadata
               /\ jobs'[j].created_at = jobs[j].created_at]_vars

\* C31 witness: a job created at hour 0 was set to completed with progress
\* 50 passed, at a later hour, after a failure had left an error behind.
C31_Witness ==
    /\ 1 \in DOMAIN jobs
    /\ Len(ledger_calls[1]) >= 2
    /\ ledger_calls[1][Len(ledger_calls[1])]
          = [method |-> "update_status", status |-> "completed",
             progress |-> 50, delta |-> 0]
    /\ jobs[1].progress = 100
    /\ jobs[1].error = Err("storage")
    /\ jobs[1].updated_at > jobs[1].created_at

\* the progress a job has after the first n calls of a log: create writes
\* 0, update_status writes 100 for completed or the progress it is given,
\* increment_progress adds its delta
RECURSIVE ProgressAfter(_, _)
ProgressAfter(log, n) ==
    IF n = 0 THEN 0
    ELSE IF log[n].method = "increment_progress"
         THEN ProgressAfter(log, n - 1) + log[n].delta
    ELSE IF log[n].status = "completed" THEN 100
    ELSE IF log[n].progress # NoneProgress THEN log[n].progress
    ELSE ProgressAfter(log, n - 1)

\* C32: no increment is lost: whatever the order in which the callers'
\* update_status and increment_progress calls reach a job, its progress is
\* the last progress written plus the sum of the deltas added since.
C32_NoIncrementLost ==
    \A j \in LedgerJobs :
        j \in DOMAIN jobs
            => jobs[j].progress = ProgressAfter(ledger_calls[j], Len(ledger_calls[j]))

\* C32 witness: three increment_progress calls with different deltas in a
\* row, adding up to 35 or 40.
C32_Witness ==
    /\ 1 \in DOMAIN jobs
    /\ Len(ledger_calls[1]) = 3
    /\ \A n \in 1..3 : ledger_calls[1][n].method = "increment_progress"
    /\ ledger_calls[1][1].delta # ledger_calls[1][2].delta
    /\ jobs[1].progress \in {35, 40}

(***************************************************************************)
(* Text sources (strategies/text_ingest_strategy.py, services/             *)
(* text_chunking.py) and the chunking of text (infra/pdf_processor.py).    *)
(***************************************************************************)
\* the characters of the texts: a letter, the full stop, the space and the
\* line feed
Chars == {"a", ".", " ", "\n"}

Texts == SeqsUpTo(Chars, MaxChars)

\* the texts submitted as sources: the empty text and a one-letter text
ShortTexts == { << >>, << "a" >> }

\* the job that submits a text; job 1 uploads a PDF before it
TextJobs == {2}

\* TextIngestStrategy.process, lines 71-73: the function-level
\* `from app.domain.events import TextIngestStartedEvent` raises ImportError,
\* domain/events.py defines no such class; JobRepository.create (line 86)
\* and event_bus.publish (line 104) are never reached
text_process(j, source) ==
    /\ pc[j] = "new"
    /\ \A k \in Jobs : k < j => pc[k] # "new"
    /\ pc' = [pc EXCEPT ![j] = "ImportError"]
    /\ raised' = raised \cup {j}
    /\ UNCHANGED << jobs, pdf, page_number, batch_i, semaphores, waiters,
                    current_counts, published, vectors, n_acquired, n_released,
                    projects, vector_expires_at >>
    /\ UNCHANGED << responses, busVars, storeVars, ledgerVars, textVars >>

\* a PDF upload followed by a text submission
TextNext ==
    \/ \E j \in ProjectJobs, plan_name \in PlanNames :
          \E document \in Documents :
              ingest_files(j, j, PlanNamed(plan_name), SmallUpload, document)
    \/ \E j \in ProjectJobs : UncontendedStep(j)
    \/ \E j \in TextJobs, source \in ShortTexts : text_process(j, source)

TextSpec == Init /\ [][TextNext]_vars

\* C33: once process has been called for a text, the ledger holds a
\* text_ingest job for it whose status is not extracting_text, and the job
\* has acquired no concurrency slot.
C33_TextJobSkipsExtraction ==
    \A j \in TextJobs :
        pc[j] # "new"
            => /\ j \in DOMAIN jobs
               /\ jobs[j].type = "text_ingest"
               /\ jobs[j].status # "extracting_text"
               /\ n_acquired[j] = 0

ChunkSizes == 1..MaxChunkSize

\* str.isspace for the characters of the model
IsSpace(c) == c \in {" ", "\n"}

NotSpace(c) == ~IsSpace(c)

\* str.strip(): without the leading and trailing whitespace
strip(s) ==
    LET kept == { i \in 1..Len(s) : NotSpace(s[i]) }
    IN  IF kept = {} THEN << >>
        ELSE SubSeq(s, CHOOSE i \in kept : \A k \in kept : i <= k,
                       CHOOSE i \in kept : \A k \in kept : i >= k)

\* str.split(sep): the pieces between the occurrences of sep, found from
\* the left
RECURSIVE split(_, _)
split(s, sep) ==
    LET found == { i \in 1..(Len(s) - Len(sep) + 1) :
                      SubSeq(s, i, i + Len(sep) - 1) = sep }
    IN  IF found = {} THEN << s >>
        ELSE LET i == CHOOSE i \in found : \A k \in found : i <= k
             IN  << SubSeq(s, 1, i - 1) >>
                    \o split(SubSeq(s, i + Len(sep), Len(s)), sep)

\* sep.join(pieces)
RECURSIVE join(_, _)
join(pieces, sep) ==
    IF Len(pieces) = 0 THEN << >>
    ELSE IF Len(pieces) = 1 THEN pieces[1]
    ELSE pieces[1] \o sep \o join(Tail(pieces), sep)

ParagraphBreak == << "\n", "\n" >>
SentenceBreak == << ".", " " >>

\* chunks.append('\n\n'.join(current_chunk)) when current_chunk is not empty
flushed(st) ==
    IF Len(st.current_chunk) > 0
    THEN Append(st.chunks, join(st.current_chunk, ParagraphBreak))
    ELSE st.chunks

\* chunk_text, lines 151-159: the body of the loop over the sentences
sentence_step(st, sentence, chars_per_chunk) ==
    IF st.current_size + Len(sentence) > chars_per_chunk
    THEN [chunks |-> flushed(st),
          current_chunk |-> << sentence >>,
          current_size |-> Len(sentence)]
    ELSE [chunks |-> st.chunks,
          current_chunk |-> Append(st.current_chunk, sentence),
          current_size |-> st.current_size + Len(sentence)]

\* the loop over the first n sentences
RECURSIVE sentences_loop(_, _, _, _)
sentences_loop(st, sentences, n, chars_per_chunk) ==
    IF n = 0 THEN st
    ELSE sentence_step(sentences_loop(st, sentences, n - 1, chars_per_chunk),
                       sentences[n], chars_per_chunk)

\* chunk_text, lines 137-173: the body of the loop over the paragraphs
paragraph_step(st, raw_paragraph, chars_per_chunk) ==
    LET paragraph == strip(raw_paragraph)
        para_size == Len(paragraph)
    IN  IF para_size = 0 THEN st
        ELSE IF para_size > chars_per_chunk
        THEN LET sentences == split(paragraph, SentenceBreak)
             IN  sentences_loop([chunks |-> flushed(st),
                                 current_chunk |-> IF Len(st.current_chunk) > 0
                                                   THEN << >> ELSE st.current_chunk,
                                 current_size |-> IF Len(st.current_chunk) > 0
                                                  THEN 0 ELSE st.current_size],
                                sentences, Len(sentences), chars_per_chunk)
        ELSE IF st.current_size + para_size > chars_per_chunk
        THEN [chunks |-> flushed(st),
              current_chunk |-> << paragraph >>,
              current_size |-> para_size]
        ELSE [chunks |-> st.chunks,
              current_chunk |-> Append(st.current_chunk, paragraph),
              current_size |-> st.current_size + para_size]

\* the loop over the first n paragraphs
RECURSIVE paragraphs_loop(_, _, _)
paragraphs_loop(paragraphs, n, chars_per_chunk) ==
    IF n = 0 THEN [chunks |-> << >>, current_chunk |-> << >>, current_size |-> 0]
    ELSE paragraph_step(paragraphs_loop(paragraphs, n - 1, chars_per_chunk),
                        paragraphs[n], chars_per_chunk)

\* PdfProcessor.chunk_text: the chunks of a text, 4 characters to the token
chunk_text(text, chunk_size) ==
    IF Len(strip(text)) = 0 THEN << >>
    ELSE LET paragraphs == split(text, ParagraphBreak)
         IN  flushed(paragraphs_loop(paragraphs, Len(paragraphs), chunk_size * 4))

\* services/text_chunking.py _chunk_text: slices of size characters
RECURSIVE fixed_chunk_text(_, _)
fixed_chunk_text(text, size) ==
    IF Len(text) = 0 THEN << >>
    ELSE << SubSeq(text, 1, Min(size, Len(text))) >>
            \o fixed_chunk_text(SubSeq(text, Min(size, Len(text)) + 1, Len(text)), size)

\* a caller chunks a text with both functions
chunk_call(text, chunk_size) ==
    /\ chunked = NotChunked
    /\ chunked' = [text |-> text, chunk_size |-> chunk_size,
                   chunks |-> chunk_text(text, chunk_size),
                   slices |-> fixed_chunk_text(text, chunk_size)]
    /\ UNCHANGED << pipelineVars, responses, busVars, storeVars, ledgerVars >>

ChunkNext == \E text \in Texts, chunk_size \in ChunkSizes : chunk_call(text, chunk_size)

ChunkSpec == Init /\ [][ChunkNext]_vars

\* the characters of a sequence of chunks, one after the other
RECURSIVE concat(_)
concat(chunks) == IF Len(chunks) = 0 THEN << >> ELSE chunks[1] \o concat(Tail(chunks))

\* a text without its whitespace
NonWhitespace(s) == SelectSeq(s, NotSpace)

\* C34: the chunks chunk_text returns, put together, hold the
\* non-whitespace characters of the text, all of them and in order, and a
\* text that is empty or whitespace only gives no chunk.
C34_ChunkingKeepsNonWhitespace ==
    /\ NonWhitespace(concat(chunked.chunks)) = NonWhitespace(chunked.text)
    /\ NonWhitespace(chunked.text) = << >> => chunked.chunks = << >>

(***************************************************************************)
(* Reference counts of the stored files (infra/pdf_storage.py, lines       *)
(* 136-185), under callers that save, add references, read and delete.     *)
(***************************************************************************)
\* file.get('metadata', {}).get('reference_count', 1)
ref_count(file) ==
    IF file.metadata.reference_count = NoCount THEN 1
    ELSE file.metadata.reference_count

\* the sequence without its k-th element
Without(files, k) == SubSeq(files, 1, k - 1) \o SubSeq(files, k + 1, Len(files))

\* PdfStorage._increment_reference: $inc of metadata.reference_count on the
\* file update_one finds for the hash; nothing when there is none
increment_reference(content_hash) ==
    /\ \/ \E k \in matching(content_hash) :
            /\ fs_files[k].metadata.reference_count < MaxReferences
            /\ fs_files' = [fs_files EXCEPT ![k].metadata.reference_count = @ + 1]
       \/ /\ matching(content_hash) = {}
          /\ UNCHANGED fs_files
    /\ UNCHANGED << returned_hash, now, fetched >>
    /\ UNCHANGED << pipelineVars, responses, busVars, ledgerVars, textVars >>

\* a delete_by_hash that always deletes the file it finds
delete_by_hash_always(content_hash) ==
    /\ \/ \E k \in matching(content_hash) :
            /\ fs_files' = Without(fs_files, k)
            /\ fetched' = [result |-> "True", content_hash |-> content_hash,
                           pdf_bytes |-> << >>]
       \/ /\ matching(content_hash) = {}
          /\ UNCHANGED fs_files
          /\ fetched' = [result |-> "False", content_hash |-> content_hash,
                         pdf_bytes |-> << >>]
    /\ UNCHANGED << returned_hash, now >>
    /\ UNCHANGED << pipelineVars, responses, busVars, ledgerVars, textVars >>

\* PdfStorage.delete_by_hash: no file: False; the file found has at most
\* one reference: fs.delete it, True; else $inc its reference_count by -1,
\* False
delete_by_hash(content_hash) ==
    /\ \/ \E k \in matching(content_hash) :
            IF ref_count(fs_files[k]) <= 1
            THEN /\ fs_files' = Without(fs_files, k)
                 /\ fetched' = [result |-> "True", content_hash |-> content_hash,
                                pdf_bytes |-> << >>]
            ELSE /\ fs_files' = [fs_files EXCEPT
                                    ![k].metadata.reference_count = @ - 1]
                 /\ fetched' = [result |-> "False", content_hash |-> content_hash,
                                pdf_bytes |-> << >>]
       \/ /\ matching(content_hash) = {}
          /\ UNCHANGED fs_files
          /\ fetched' = [result |-> "False", content_hash |-> content_hash,
                         pdf_bytes |-> << >>]
    /\ UNCHANGED << returned_hash, now >>
    /\ UNCHANGED << pipelineVars, responses, busVars, ledgerVars, textVars >>

\* the jobs whose uploads are saved
RefJobs == {1, 2}

RefNext ==
    \/ \E j \in RefJobs, pdf_bytes \in PdfContents :
          save_or_reuse(j, pdf_bytes, [job_id |-> j, plan_name |-> "Free"])
    \/ tick
    \/ \E content_hash \in ContentHashes : increment_reference(content_hash)
    \/ \E content_hash \in ContentHashes : delete_by_hash(content_hash)

RefSpec == Init /\ [][RefNext]_vars

\* the files of a bucket that carry the hash
MatchingIn(files, content_hash) ==
    { k \in 1..Len(files) : files[k].metadata.content_hash = content_hash }

C36_DeleteOnlyAtLastReference ==
    [][\A content_hash \in ContentHashes :
          delete_by_hash(content_hash)
            => IF MatchingIn(fs_files, content_hash) = {}
               THEN fs_files' = fs_files /\ fetched'.result = "False"
               ELSE \E k \in MatchingIn(fs_files, content_hash) :
                       IF ref_count(fs_files[k]) > 1
                       THEN /\ Len(fs_files') = Len(fs_files)
                            /\ fs_files'[k].content = fs_files[k].content
                            /\ fs_files'[k].metadata.content_hash = content_hash
                            /\ ref_count(fs_files'[k]) = ref_count(fs_files[k]) - 1
                            /\ \A i \in 1..Len(fs_files) :
                                  i # k => fs_files'[i] = fs_files[i]
                       ELSE fs_files' = Without(fs_files, k)]_vars

\* C36 witness: delete_by_hash returned False for the hash of the only file
\* of the bucket, which is still there with one reference left.
C36_Witness ==
    /\ Len(fs_files) = 1
    /\ fetched.result = "False"
    /\ fetched.content_hash = fs_files[1].metadata.content_hash
    /\ fs_files[1].metadata.reference_count = 1
    /\ returned_hash[2] = NoHash

\* C37: as long as no stage has raised, at most one PdfIngestCompletedEvent
\* is published for a job, and a job whose status is completed has had all
\* the pages of its document read, none being left for extraction.
C37_CompletedOnceAfterLastPage ==
    \A j \in Jobs :
        j \notin raised
            => /\ Len(CompletedEvents(j)) <= 1
               /\ (j \in DOMAIN jobs /\ jobs[j].status = "completed")
                     => page_number[j] = total_pages(j)

\* get_stats()[plan]["available"]
available(plan) == LIMITS[plan] - count_of(current_counts, plan)

\* C38: for every configured plan the current count is the number of
\* extractions that hold a slot of the plan, the free permits of the plan's
\* semaphore are the limit minus the current count, and the available
\* count reported by get_stats lies between 0 and the limit.
C38_CountsMatchSemaphores ==
    \A plan \in DOMAIN LIMITS :
        /\ count_of(current_counts, plan) = Cardinality(Holders(plan))
        /\ semaphores[plan] = LIMITS[plan] - count_of(current_counts, plan)
        /\ available(plan) \in 0..LIMITS[plan]

\* the jobs other than j that hold or wait for a slot under j's plan name
SameNameContenders(j) ==
    { k \in DOMAIN jobs \ {j} :
        /\ Title(plan_name_of(k)) = Title(plan_name_of(j))
        /\ Holding(k) \/ k \in waiters }

\* C39: plan names do not interfere: an acquire has to wait, and can then
\* fail, only when an extraction of the same plan name holds or waits for
\* a slot, never because of slots held under another plan name.
C39_PlanNamesDoNotInterfere ==
    [][\A j \in Jobs :
          (pc[j] = "ext_start" /\ pc'[j] = "acq_wait")
              => SameNameContenders(j) # {}]_vars

\* C40: a job's error is set exactly when its status is failed.
C40_ErrorIffFailed ==
    \A j \in DOMAIN jobs :
        (jobs[j].error # NoneError) <=> (jobs[j].status = "failed")

====
